---- MODULE Spec2Model ----
(***************************************************************************)
(* Model of neonAdapter (src/adapter-postgres/drivers/neon.ts): the Lucia  *)
(* storage adapter over the Neon serverless driver.  The adapter builds    *)
(* parameterized SQL statements; the database executes them one statement  *)
(* at a time (sql) or inside the one explicit transaction (transaction).   *)
(***************************************************************************)
EXTENDS Naturals, Sequences, FiniteSets, TLC

VARIABLES
    db,                          \* committed rows: table name -> set of rows
    ESCAPED_SESSION_TABLE_NAME,  \* "session", or "null" when tables.session is absent
    tx,                          \* the setUser(user, key) call in flight and its connection
    gsu,                         \* the getSessionAndUser call in flight
    last,                        \* the call that completed last, since the latest call began
    calls                        \* adapter calls started so far

vars == <<db, ESCAPED_SESSION_TABLE_NAME, tx, gsu, last, calls>>

(***************************************************************************)
(* Bounds and universes                                                    *)
(***************************************************************************)
MaxCalls == 2

UserIds == {"u1", "u2"}
KeyIds == {"k1", "k2"}
SessionIds == {"s1"}
Usernames == {"ann", "bob"}
Passwords == {"p1", "p2"}
Expires == {"10", "20"}

ESCAPED_USER_TABLE_NAME == "user"
ESCAPED_KEY_TABLE_NAME == "key"
Tables == {"user", "session", "key"}

UserSchema == [id : UserIds, username : Usernames]
KeySchema == [id : KeyIds, user_id : UserIds, hashed_password : Passwords]
DatabaseSession == [id : SessionIds, user_id : UserIds, active_expires : Expires]

\* The users and keys that setUser(user, key) is called with
NewUsers == {u \in UserSchema : u.username = "bob"}
NewKeys == {k \in KeySchema : k.hashed_password = "p2"}

Null == [null |-> TRUE]
EmptyDb == [t \in Tables |-> {}]

\* The objects with some of the columns `cols`, each holding a value of its column.
ColumnValues(c) ==
    CASE c = "user_id" -> UserIds
      [] c = "username" -> Usernames
      [] c = "hashed_password" -> Passwords
      [] c = "active_expires" -> Expires

PartialOver(cols) ==
    UNION { { f \in [d -> UserIds \cup Usernames \cup Passwords \cup Expires] :
                \A c \in d : f[c] \in ColumnValues(c) } : d \in SUBSET cols }

PartialUser == PartialOver({"username"})
PartialKey == PartialOver({"user_id", "hashed_password"})
PartialSession == PartialOver({"user_id", "active_expires"})

(***************************************************************************)
(* Errors                                                                  *)
(***************************************************************************)
NoError == [kind |-> "none", code |-> "", detail |-> <<>>]
\* DatabaseError of a uniqueness violation on the primary key id
UniqueViolation ==
    [kind |-> "DatabaseError", code |-> "23505",
     detail |-> <<"Key", "(id)", "already", "exists">>]
\* DatabaseError of an insert or update whose user_id has no user row
ForeignKeyViolation ==
    [kind |-> "DatabaseError", code |-> "23503",
     detail |-> <<"Key", "(user_id)", "is", "not", "present", "in", "table">>]
\* DatabaseError of deleting a user row that sessions or keys still reference
StillReferenced ==
    [kind |-> "DatabaseError", code |-> "23503",
     detail |-> <<"Key", "(id)", "is", "still", "referenced", "from", "table">>]
\* UPDATE ... SET  WHERE ...: an empty SET list does not parse
SyntaxError == [kind |-> "DatabaseError", code |-> "42601", detail |-> <<>>]
\* a failure of the transport, with no database code and no detail
ConnectionError == [kind |-> "Error", code |-> "ECONNRESET", detail |-> <<>>]
\* DatabaseError of a statement on a table the database does not have
UndefinedTable == [kind |-> "DatabaseError", code |-> "42P01", detail |-> <<>>]

LuciaError(name) == [kind |-> "LuciaError", code |-> name, detail |-> <<>>]
SessionTableError ==
    [kind |-> "Error", code |-> "Session table not defined", detail |-> <<>>]

\* String.prototype.includes on the detail text, word by word
Includes(detail, words) ==
    \E i \in 0..Len(detail) :
        /\ i + Len(words) <= Len(detail)
        /\ \A j \in 1..Len(words) : detail[i + j] = words[j]

(***************************************************************************)
(* utils: helper and getSetArgs                                            *)
(***************************************************************************)
ColumnOrder == <<"id", "user_id", "username", "hashed_password", "active_expires">>

\* helper(values): the field names, their placeholders $1..$n and the arguments
helper(values) ==
    LET Has(c) == c \in DOMAIN values
        fields == SelectSeq(ColumnOrder, Has)
    IN  << fields,
           [i \in 1..Len(fields) |-> i],
           [i \in 1..Len(fields) |-> values[fields[i]]] >>

\* getSetArgs(fields, placeholders): the list "field = $i"
getSetArgs(fields, placeholders) ==
    [i \in 1..Len(fields) |-> <<fields[i], placeholders[i]>>]

(***************************************************************************)
(* The database: one statement executed against the rows a connection sees *)
(***************************************************************************)
Range(s) == {s[i] : i \in 1..Len(s)}

InsertStmt(table, h) ==
    [kind |-> "INSERT", table |-> table, fields |-> h[1], values |-> h[2], args |-> h[3]]
UpdateStmt(table, set, where, args) ==
    [kind |-> "UPDATE", table |-> table, set |-> set, where |-> where, args |-> args]
DeleteStmt(table, column, args) ==
    [kind |-> "DELETE", table |-> table, column |-> column, args |-> args]
SelectStmt(table, column, args) ==
    [kind |-> "SELECT", table |-> table, column |-> column, args |-> args]
JoinStmt(args) ==
    [kind |-> "JOIN", table |-> "session", column |-> "id", args |-> args]

\* The row an INSERT statement describes
InsertedRow(stmt) ==
    [c \in Range(stmt.fields) |->
        LET i == CHOOSE j \in 1..Len(stmt.fields) : stmt.fields[j] = c
        IN  stmt.args[stmt.values[i]]]

\* A row after the SET list of an UPDATE statement
UpdatedRow(row, stmt) ==
    [c \in DOMAIN row |->
        IF \E i \in 1..Len(stmt.set) : stmt.set[i][1] = c
        THEN LET i == CHOOSE j \in 1..Len(stmt.set) : stmt.set[j][1] = c
             IN  stmt.args[stmt.set[i][2]]
        ELSE row[c]]

References(table) == table \in {"session", "key"}

\* The constraint an INSERT violates among the rows `seen` (the unique index is
\* checked as the row is inserted, the foreign key at the end of the statement)
InsertError(table, row, seen) ==
    IF \E r \in seen[table] : r.id = row.id THEN UniqueViolation
    ELSE IF References(table) /\ ~ \E u \in seen["user"] : u.id = row.user_id
    THEN ForeignKeyViolation
    ELSE NoError

UpdateError(table, old, new, seen) ==
    IF References(table)
       /\ old # {}
       /\ \E r \in new : ~ \E u \in seen["user"] : u.id = r.user_id
    THEN ForeignKeyViolation
    ELSE NoError

\* A schema variant of DeleteError: no foreign key guards the user rows
DeleteErrorUnguarded(table, gone, seen) == NoError

DeleteError(table, gone, seen) ==
    IF table = "user"
       /\ \E u \in gone : \E t \in {"session", "key"} : \E r \in seen[t] : r.user_id = u.id
    THEN StillReferenced
    ELSE NoError

Matching(rows, column, value) == {r \in rows : r[column] = value}

Failure(e) == [err |-> e, add |-> {}, del |-> {}, rows |-> {}]

\* Execute(stmt, seen): the error, the rows added to and deleted from stmt.table,
\* and the rows returned
Execute(stmt, seen) ==
    IF stmt.table \notin Tables THEN Failure(UndefinedTable) ELSE
    LET rows == seen[stmt.table] IN
    CASE stmt.kind = "INSERT" ->
            LET row == InsertedRow(stmt)
                e == InsertError(stmt.table, row, seen)
            IN  [err |-> e,
                 add |-> IF e = NoError THEN {row} ELSE {},
                 del |-> {},
                 rows |-> {}]
      [] stmt.kind = "UPDATE" ->
            IF Len(stmt.set) = 0
            THEN [err |-> SyntaxError, add |-> {}, del |-> {}, rows |-> {}]
            ELSE LET old == Matching(rows, "id", stmt.args[stmt.where])
                     new == {UpdatedRow(r, stmt) : r \in old}
                     e == UpdateError(stmt.table, old, new, seen)
                 IN  [err |-> e,
                      add |-> IF e = NoError THEN new ELSE {},
                      del |-> IF e = NoError THEN old ELSE {},
                      rows |-> {}]
      [] stmt.kind = "DELETE" ->
            LET gone == Matching(rows, stmt.column, stmt.args[1])
                e == DeleteError(stmt.table, gone, seen)
            IN  [err |-> e,
                 add |-> {},
                 del |-> IF e = NoError THEN gone ELSE {},
                 rows |-> {}]
      [] stmt.kind = "SELECT" ->
            [err |-> NoError, add |-> {}, del |-> {},
             rows |-> Matching(rows, stmt.column, stmt.args[1])]
      [] stmt.kind = "JOIN" ->
            [err |-> NoError, add |-> {}, del |-> {},
             rows |-> { [id |-> u.id, username |-> u.username, __session_id |-> s.id] :
                          <<u, s>> \in { p \in seen["user"] \X Matching(rows, "id", stmt.args[1]) :
                                           p[1].id = p[2].user_id } }]

Apply(table, r, rows) ==
    [t \in Tables |-> IF t = table THEN (rows[t] \ r.del) \cup r.add ELSE rows[t]]

Merge(rows, more) == [t \in Tables |-> rows[t] \cup more[t]]

(***************************************************************************)
(* State of the calls in flight                                            *)
(***************************************************************************)
Pending == [pending |-> TRUE]

NoTransaction ==
    [pc |-> "idle", user |-> Null, key |-> Null, conn |-> "none", pend |-> EmptyDb,
     log |-> <<>>, failed |-> "none", err |-> NoError]

NoLookup ==
    [pc |-> "idle", sessionId |-> "", sessionResult |-> Pending,
     userFromJoinResult |-> Pending]

\* A completed call: what it was given, the error of its failing statement, what
\* it threw (raised) or returned (res), the statements it issued through sql
\* (nsql) or on its own connection (log), and the state it left that connection in
NoCall == [op |-> "none", arg |-> Null, err |-> NoError, raised |-> NoError,
           res |-> Null, nsql |-> 0, log |-> <<>>, failed |-> "none", conn |-> "none"]

\* Rows that satisfy the schema's primary keys and foreign keys
Consistent(rows) ==
    /\ \A t \in Tables : \A r, q \in rows[t] : r.id = q.id => r = q
    /\ \A t \in {"session", "key"} : \A r \in rows[t] :
          \E u \in rows["user"] : u.id = r.user_id

Init ==
    /\ ESCAPED_SESSION_TABLE_NAME \in {"session", "null"}
    /\ \E U \in SUBSET UserSchema, S \in SUBSET DatabaseSession, K \in SUBSET KeySchema :
          /\ db = [user |-> U, session |-> S, key |-> K]
          /\ Consistent(db)
          /\ \A u \in U : u.username = "ann"
          /\ \A r \in S : r.active_expires = "10"
          /\ \A k \in K : k.hashed_password = "p1"
          /\ ESCAPED_SESSION_TABLE_NAME = "null" => S = {}
    /\ tx = NoTransaction
    /\ gsu = NoLookup
    /\ last = NoCall
    /\ calls = 0

(***************************************************************************)
(* The SQL facility: sql(...) runs one statement, atomically, on the       *)
(* committed rows; a statement that fails changes nothing.                 *)
(***************************************************************************)
sql(stmt, fault) == IF fault THEN Failure(ConnectionError) ELSE Execute(stmt, db)

\* A statement waits while the open transaction holds a lock it needs: on an
\* uncommitted row with the id it inserts, or on a user row that an uncommitted
\* key references and it deletes.
Blocked(stmt) ==
    \/ /\ stmt.kind = "INSERT"
       /\ stmt.table \in Tables
       /\ \E r \in tx.pend[stmt.table] : r.id = InsertedRow(stmt).id
    \/ /\ stmt.kind = "DELETE"
       /\ stmt.table = "user"
       /\ \E u \in Matching(db["user"], stmt.column, stmt.args[1]) :
             \E r \in tx.pend["key"] : r.user_id = u.id

\* A faulty variant of get: rows.at(1) ?? null
getSecond(rows) ==
    IF Cardinality(rows) < 2 THEN Null
    ELSE CHOOSE r \in rows : \E q \in rows : q # r

\* get: rows.at(0) ?? null
get(rows) == IF rows = {} THEN Null ELSE CHOOSE r \in rows : TRUE

getAll(rows) == rows

\* transformDatabaseSession: the expiry column read as a number
Number(text) == CASE text = "10" -> 10 [] text = "20" -> 20

transformDatabaseSession(session) ==
    [id |-> session.id, user_id |-> session.user_id,
     active_expires |-> Number(session.active_expires)]

\* The call `op(arg)` completes: r is what its statement did, raised what it throws
Completes(op, arg, r, raised, res, nsql) ==
    /\ last' = [NoCall EXCEPT !.op = op, !.arg = arg, !.err = r.err, !.raised = raised,
                              !.res = IF raised = NoError THEN res ELSE Null,
                              !.nsql = nsql]
    /\ calls' = calls + 1
    /\ UNCHANGED <<ESCAPED_SESSION_TABLE_NAME, tx, gsu>>

\* A faulty variant of NoSessionTable: the delete operations lack the check
NoSessionTableExceptDelete(op) ==
    CASE op \in {"getSession", "getSessionsByUserId", "setSession", "updateSession",
                 "getSessionAndUser"}
           -> ESCAPED_SESSION_TABLE_NAME = "null"
      [] OTHER -> FALSE

\* if (!ESCAPED_SESSION_TABLE_NAME) throw new Error("Session table not defined")
NoSessionTable(op) ==
    CASE op \in {"getSession", "getSessionsByUserId", "setSession", "deleteSession",
                 "deleteSessionsByUserId", "updateSession", "getSessionAndUser"}
           -> ESCAPED_SESSION_TABLE_NAME = "null"
      [] OTHER -> FALSE

Throws(op, arg) ==
    /\ db' = db
    /\ Completes(op, arg, Failure(NoError), SessionTableError, Null, 0)

\* One statement through sql, its error raised as `raised` says
Runs(op, arg, stmt, fault, raised, res) ==
    /\ ~ Blocked(stmt)
    /\ db' = Apply(stmt.table, sql(stmt, fault), db)
    /\ Completes(op, arg, sql(stmt, fault), raised, res, 1)

(***************************************************************************)
(* Statements the adapter builds                                           *)
(***************************************************************************)
insertInto(table, values) == InsertStmt(table, helper(values))

\* A faulty variant of updateWhereId: WHERE id = $(fields.length)
updateWhereIdOffByOne(table, id, partial) ==
    LET h == helper(partial)
    IN  UpdateStmt(table, getSetArgs(h[1], h[2]), Len(h[1]), Append(h[3], id))

\* UPDATE t SET getSetArgs(fields, values) WHERE id = $(fields.length + 1),
\* with arguments [...args, id]
updateWhereId(table, id, partial) ==
    LET h == helper(partial)
    IN  UpdateStmt(table, getSetArgs(h[1], h[2]), Len(h[1]) + 1, Append(h[3], id))

deleteWhere(table, column, value) == DeleteStmt(table, column, <<value>>)

selectWhere(table, column, value) == SelectStmt(table, column, <<value>>)

(***************************************************************************)
(* Error translation                                                       *)
(***************************************************************************)
\* setUser's catch: 23505 with "Key (id)" becomes AUTH_DUPLICATE_KEY_ID
setUserCatch(e) ==
    IF e.code = "23505" /\ Includes(e.detail, <<"Key", "(id)">>)
    THEN LuciaError("AUTH_DUPLICATE_KEY_ID")
    ELSE e

\* setSession's catch: 23503 with "Key (user_id)" becomes AUTH_INVALID_USER_ID
setSessionCatch(e) ==
    IF e.code = "23503" /\ Includes(e.detail, <<"Key", "(user_id)">>)
    THEN LuciaError("AUTH_INVALID_USER_ID")
    ELSE e

\* A faulty variant of setKeyCatch: the two codes exchanged
setKeyCatchSwapped(e) ==
    IF e.code = "23505" /\ Includes(e.detail, <<"Key", "(id)">>)
    THEN LuciaError("AUTH_INVALID_USER_ID")
    ELSE IF e.code = "23503" /\ Includes(e.detail, <<"Key", "(user_id)">>)
    THEN LuciaError("AUTH_DUPLICATE_KEY_ID")
    ELSE e

\* setKey's catch
setKeyCatch(e) ==
    IF e.code = "23503" /\ Includes(e.detail, <<"Key", "(user_id)">>)
    THEN LuciaError("AUTH_INVALID_USER_ID")
    ELSE IF e.code = "23505" /\ Includes(e.detail, <<"Key", "(id)">>)
    THEN LuciaError("AUTH_DUPLICATE_KEY_ID")
    ELSE e

(***************************************************************************)
(* User operations                                                         *)
(***************************************************************************)
getUser(userId) ==
    /\ calls < MaxCalls
    /\ LET stmt == selectWhere(ESCAPED_USER_TABLE_NAME, "id", userId)
           r == sql(stmt, FALSE)
       IN  Runs("getUser", userId, stmt, FALSE, r.err, get(r.rows))

\* setUser(user) with no key: one INSERT, its error not caught
setUser(user) ==
    /\ calls < MaxCalls
    /\ \E fault \in BOOLEAN :
         LET stmt == insertInto(ESCAPED_USER_TABLE_NAME, user)
             r == sql(stmt, fault)
         IN  Runs("setUser", user, stmt, fault, r.err, Null)

deleteUser(userId) ==
    /\ calls < MaxCalls
    /\ LET stmt == deleteWhere(ESCAPED_USER_TABLE_NAME, "id", userId)
           r == sql(stmt, FALSE)
       IN  Runs("deleteUser", userId, stmt, FALSE, r.err, Null)

updateUser(userId, partialUser) ==
    /\ calls < MaxCalls
    /\ LET stmt == updateWhereId(ESCAPED_USER_TABLE_NAME, userId, partialUser)
           r == sql(stmt, FALSE)
       IN  Runs("updateUser", <<userId, partialUser>>, stmt, FALSE, r.err, Null)

(***************************************************************************)
(* Session operations                                                      *)
(***************************************************************************)
getSession(sessionId) ==
    /\ calls < MaxCalls
    /\ IF NoSessionTable("getSession") THEN Throws("getSession", sessionId)
       ELSE LET stmt == selectWhere(ESCAPED_SESSION_TABLE_NAME, "id", sessionId)
                r == sql(stmt, FALSE)
                result == get(r.rows)
            IN  Runs("getSession", sessionId, stmt, FALSE, r.err,
                     IF result # Null THEN transformDatabaseSession(result) ELSE Null)

getSessionsByUserId(userId) ==
    /\ calls < MaxCalls
    /\ IF NoSessionTable("getSessionsByUserId") THEN Throws("getSessionsByUserId", userId)
       ELSE LET stmt == selectWhere(ESCAPED_SESSION_TABLE_NAME, "user_id", userId)
                r == sql(stmt, FALSE)
            IN  Runs("getSessionsByUserId", userId, stmt, FALSE, r.err,
                     {transformDatabaseSession(val) : val \in getAll(r.rows)})

setSession(session) ==
    /\ calls < MaxCalls
    /\ IF NoSessionTable("setSession") THEN Throws("setSession", session)
       ELSE \E fault \in BOOLEAN :
              LET stmt == insertInto(ESCAPED_SESSION_TABLE_NAME, session)
                  r == sql(stmt, fault)
              IN  Runs("setSession", session, stmt, fault, setSessionCatch(r.err), Null)

deleteSession(sessionId) ==
    /\ calls < MaxCalls
    /\ IF NoSessionTable("deleteSession") THEN Throws("deleteSession", sessionId)
       ELSE LET stmt == deleteWhere(ESCAPED_SESSION_TABLE_NAME, "id", sessionId)
                r == sql(stmt, FALSE)
            IN  Runs("deleteSession", sessionId, stmt, FALSE, r.err, Null)

deleteSessionsByUserId(userId) ==
    /\ calls < MaxCalls
    /\ IF NoSessionTable("deleteSessionsByUserId")
       THEN Throws("deleteSessionsByUserId", userId)
       ELSE LET stmt == deleteWhere(ESCAPED_SESSION_TABLE_NAME, "user_id", userId)
                r == sql(stmt, FALSE)
            IN  Runs("deleteSessionsByUserId", userId, stmt, FALSE, r.err, Null)

updateSession(sessionId, partialSession) ==
    /\ calls < MaxCalls
    /\ IF NoSessionTable("updateSession")
       THEN Throws("updateSession", <<sessionId, partialSession>>)
       ELSE LET stmt == updateWhereId(ESCAPED_SESSION_TABLE_NAME, sessionId, partialSession)
                r == sql(stmt, FALSE)
            IN  Runs("updateSession", <<sessionId, partialSession>>, stmt, FALSE,
                     r.err, Null)

(***************************************************************************)
(* Key operations                                                          *)
(***************************************************************************)
getKey(keyId) ==
    /\ calls < MaxCalls
    /\ LET stmt == selectWhere(ESCAPED_KEY_TABLE_NAME, "id", keyId)
           r == sql(stmt, FALSE)
       IN  Runs("getKey", keyId, stmt, FALSE, r.err, get(r.rows))

getKeysByUserId(userId) ==
    /\ calls < MaxCalls
    /\ LET stmt == selectWhere(ESCAPED_KEY_TABLE_NAME, "user_id", userId)
           r == sql(stmt, FALSE)
       IN  Runs("getKeysByUserId", userId, stmt, FALSE, r.err, getAll(r.rows))

setKey(key) ==
    /\ calls < MaxCalls
    /\ \E fault \in BOOLEAN :
         LET stmt == insertInto(ESCAPED_KEY_TABLE_NAME, key)
             r == sql(stmt, fault)
         IN  Runs("setKey", key, stmt, fault, setKeyCatch(r.err), Null)

deleteKey(keyId) ==
    /\ calls < MaxCalls
    /\ LET stmt == deleteWhere(ESCAPED_KEY_TABLE_NAME, "id", keyId)
           r == sql(stmt, FALSE)
       IN  Runs("deleteKey", keyId, stmt, FALSE, r.err, Null)

deleteKeysByUserId(userId) ==
    /\ calls < MaxCalls
    /\ LET stmt == deleteWhere(ESCAPED_KEY_TABLE_NAME, "user_id", userId)
           r == sql(stmt, FALSE)
       IN  Runs("deleteKeysByUserId", userId, stmt, FALSE, r.err, Null)

updateKey(keyId, partialKey) ==
    /\ calls < MaxCalls
    /\ LET stmt == updateWhereId(ESCAPED_KEY_TABLE_NAME, keyId, partialKey)
           r == sql(stmt, FALSE)
       IN  Runs("updateKey", <<keyId, partialKey>>, stmt, FALSE, r.err, Null)

(***************************************************************************)
(* setUser(user, key): transaction(...) on a dedicated Client              *)
(***************************************************************************)
\* const client = new Client(connectionUrl); await client.connect()
setUserWithKey(user, key) ==
    /\ calls < MaxCalls
    /\ tx.pc = "idle"
    /\ tx' = [NoTransaction EXCEPT !.pc = "connect", !.user = user, !.key = key]
    /\ last' = NoCall
    /\ calls' = calls + 1
    /\ UNCHANGED <<db, ESCAPED_SESSION_TABLE_NAME, gsu>>

\* The statement the transaction awaits at pc
txStatement(t) ==
    CASE t.pc = "INSERT_USER" -> insertInto(ESCAPED_USER_TABLE_NAME, t.user)
      [] t.pc = "INSERT_KEY" -> insertInto(ESCAPED_KEY_TABLE_NAME, t.key)

txNext(pc) ==
    CASE pc = "BEGIN" -> "INSERT_USER"
      [] pc = "INSERT_USER" -> "INSERT_KEY"
      [] pc = "INSERT_KEY" -> "COMMIT"
      [] pc = "COMMIT" -> "end"

\* A faulty variant of txCatch: the error rethrown with no ROLLBACK
txCatchNoRollback(t, e) ==
    [t EXCEPT !.log = Append(@, t.pc), !.failed = t.pc, !.err = e, !.pc = "end"]

\* catch (e) { client.query("ROLLBACK"); throw e } and then the finally block,
\* which calls client.end(): the ROLLBACK is sent and not awaited
txCatch(t, e) ==
    [t EXCEPT !.log = @ \o <<t.pc, "ROLLBACK">>, !.failed = t.pc, !.err = e, !.pc = "end"]

\* A faulty variant of txFinally: client.end() after COMMIT only, not in a
\* finally block
txEndOnSuccess(t) ==
    IF t.err = NoError THEN [t EXCEPT !.conn = "closed", !.log = Append(@, "END")] ELSE t

\* finally { await client.end() }: the connection closes
txFinally(t) == [t EXCEPT !.conn = "closed", !.log = Append(@, "END")]

\* setUser(user, key) returns, or throws what its catch block makes of t.err
setUserCompletes(t) ==
    [NoCall EXCEPT !.op = "setUserWithKey", !.arg = <<t.user, t.key>>, !.err = t.err,
                   !.raised = setUserCatch(t.err), !.log = t.log,
                   !.failed = t.failed, !.conn = t.conn]

\* await client.connect(), outside the try block: a failure leaves no connection
\* and is thrown to setUser's catch block
TxConnect ==
    /\ tx.pc = "connect"
    /\ \E fault \in BOOLEAN :
         IF fault
         THEN /\ tx' = NoTransaction
              /\ last' = setUserCompletes([tx EXCEPT !.failed = "connect",
                                                     !.err = ConnectionError])
         ELSE /\ tx' = [tx EXCEPT !.conn = "open", !.pc = "BEGIN"]
              /\ last' = last
    /\ UNCHANGED <<db, ESCAPED_SESSION_TABLE_NAME, gsu, calls>>

\* await client.query("BEGIN")
TxBegin ==
    /\ tx.pc = "BEGIN"
    /\ \E fault \in BOOLEAN :
         tx' = IF fault THEN txCatch(tx, ConnectionError)
               ELSE [tx EXCEPT !.log = Append(@, "BEGIN"), !.pc = txNext(tx.pc)]
    /\ UNCHANGED <<db, ESCAPED_SESSION_TABLE_NAME, gsu, last, calls>>

\* A faulty variant of clientQuery: the insert goes through the autocommitting
\* sql(...) instead of the transaction's connection
clientQueryAutocommit(stmt, r, t) == [pend |-> t.pend, db |-> Apply(stmt.table, r, db)]

\* client.query(...) on the transaction's connection: what the statement writes
\* stays with the transaction until COMMIT
clientQuery(stmt, r, t) == [pend |-> Apply(stmt.table, r, t.pend), db |-> db]

\* await client.query(INSERT ...): the statement sees the committed rows and the
\* transaction's own
TxInsert ==
    /\ tx.pc \in {"INSERT_USER", "INSERT_KEY"}
    /\ \E fault \in BOOLEAN :
         LET stmt == txStatement(tx)
             r == IF fault THEN Failure(ConnectionError)
                  ELSE Execute(stmt, Merge(db, tx.pend))
             w == clientQuery(stmt, r, tx)
         IN  IF r.err # NoError
             THEN /\ tx' = txCatch(tx, r.err)
                  /\ db' = db
             ELSE /\ tx' = [tx EXCEPT !.pend = w.pend, !.log = Append(@, tx.pc),
                                      !.pc = txNext(tx.pc)]
                  /\ db' = w.db
    /\ UNCHANGED <<ESCAPED_SESSION_TABLE_NAME, gsu, last, calls>>

\* await client.query("COMMIT")
TxCommit ==
    /\ tx.pc = "COMMIT"
    /\ \E fault \in BOOLEAN :
         IF fault
         THEN /\ tx' = txCatch(tx, ConnectionError)
              /\ db' = db
         ELSE /\ tx' = [tx EXCEPT !.pend = EmptyDb, !.log = Append(@, "COMMIT"),
                                  !.pc = txNext(tx.pc)]
              /\ db' = Merge(db, tx.pend)
    /\ UNCHANGED <<ESCAPED_SESSION_TABLE_NAME, gsu, last, calls>>

\* The finally block completes: the server has dropped what the transaction did
\* not commit, and setUser returns or throws
TxEnd ==
    /\ tx.pc = "end"
    /\ tx' = NoTransaction
    /\ last' = setUserCompletes(txFinally(tx))
    /\ UNCHANGED <<db, ESCAPED_SESSION_TABLE_NAME, gsu, calls>>

(***************************************************************************)
(* getSessionAndUser: two lookups in flight at once, joined by Promise.all *)
(***************************************************************************)
\* const { __session_id: _, ...userResult } = userFromJoinResult
userResult(userFromJoinResult) ==
    [c \in DOMAIN userFromJoinResult \ {"__session_id"} |-> userFromJoinResult[c]]

\* What getSessionAndUser returns from the two results
sessionAndUser(sessionResult, userFromJoinResult) ==
    IF sessionResult = Null \/ userFromJoinResult = Null
    THEN <<Null, Null>>
    ELSE <<transformDatabaseSession(sessionResult), userResult(userFromJoinResult)>>

\* Promise.all: the call returns once both lookups have completed
settle(g) ==
    IF g.sessionResult # Pending /\ g.userFromJoinResult # Pending
    THEN /\ gsu' = NoLookup
         /\ last' = [NoCall EXCEPT !.op = "getSessionAndUser", !.arg = g.sessionId,
                                   !.res = sessionAndUser(g.sessionResult,
                                                          g.userFromJoinResult),
                                   !.nsql = 2]
    ELSE /\ gsu' = g
         /\ last' = last

getSessionAndUser(sessionId) ==
    /\ calls < MaxCalls
    /\ IF NoSessionTable("getSessionAndUser")
       THEN Throws("getSessionAndUser", sessionId)
       ELSE /\ gsu.pc = "idle"
            /\ gsu' = [NoLookup EXCEPT !.pc = "await", !.sessionId = sessionId]
            /\ last' = NoCall
            /\ calls' = calls + 1
            /\ UNCHANGED <<db, ESCAPED_SESSION_TABLE_NAME, tx>>

\* SELECT * FROM session WHERE id = $1
getSessionPromise ==
    /\ gsu.pc = "await"
    /\ gsu.sessionResult = Pending
    /\ LET stmt == selectWhere(ESCAPED_SESSION_TABLE_NAME, "id", gsu.sessionId)
       IN  settle([gsu EXCEPT !.sessionResult = get(sql(stmt, FALSE).rows)])
    /\ UNCHANGED <<db, ESCAPED_SESSION_TABLE_NAME, tx, calls>>

\* SELECT user.*, session.id as __session_id FROM session INNER JOIN user
\* ON user.id = session.user_id WHERE session.id = $1
getUserFromJoinPromise ==
    /\ gsu.pc = "await"
    /\ gsu.userFromJoinResult = Pending
    /\ LET stmt == JoinStmt(<<gsu.sessionId>>)
       IN  settle([gsu EXCEPT !.userFromJoinResult = get(sql(stmt, FALSE).rows)])
    /\ UNCHANGED <<db, ESCAPED_SESSION_TABLE_NAME, tx, calls>>

Next ==
    \/ \E user \in NewUsers, key \in NewKeys : setUserWithKey(user, key)
    \/ TxConnect
    \/ TxBegin
    \/ TxInsert
    \/ TxCommit
    \/ TxEnd
    \/ \E sessionId \in SessionIds : getSessionAndUser(sessionId)
    \/ getSessionPromise
    \/ getUserFromJoinPromise
    \/ \E userId \in UserIds : getUser(userId)
    \/ \E user \in UserSchema : setUser(user)
    \/ \E userId \in UserIds : deleteUser(userId)
    \/ \E userId \in UserIds, partialUser \in PartialUser : updateUser(userId, partialUser)
    \/ \E sessionId \in SessionIds : getSession(sessionId)
    \/ \E userId \in UserIds : getSessionsByUserId(userId)
    \/ \E session \in DatabaseSession : setSession(session)
    \/ \E sessionId \in SessionIds : deleteSession(sessionId)
    \/ \E userId \in UserIds : deleteSessionsByUserId(userId)
    \/ \E sessionId \in SessionIds, partialSession \in PartialSession :
          updateSession(sessionId, partialSession)
    \/ \E keyId \in KeyIds : getKey(keyId)
    \/ \E userId \in UserIds : getKeysByUserId(userId)
    \/ \E key \in KeySchema : setKey(key)
    \/ \E keyId \in KeyIds : deleteKey(keyId)
    \/ \E userId \in UserIds : deleteKeysByUserId(userId)
    \/ \E keyId \in KeyIds, partialKey \in PartialKey : updateKey(keyId, partialKey)

Spec == Init /\ [][Next]_vars

(***************************************************************************)
(* Properties                                                              *)
(***************************************************************************)
UserRow(rows, userId) == get(Matching(rows["user"], "id", userId))

\* A step in which a call made through sql(...) completes
Completed(ops) == calls' = calls + 1 /\ last'.op \in ops

TransactionOrder == <<"BEGIN", "INSERT_USER", "INSERT_KEY", "COMMIT">>

\* C1: setUser(user, key) is atomic.  No step of the call changes the committed
\* rows except a COMMIT that succeeds, which adds the user row and the key row
\* together; a call that returns has committed; and when the call throws after
\* its user insert succeeded (the key insert or the COMMIT failed), getUser of
\* that id finds no row.
C1_SetUserAtomic ==
    [][ (tx.pc # "idle" /\ tx' # tx) =>
          IF tx.pc = "COMMIT" /\ tx'.err = NoError
          THEN /\ db' = [db EXCEPT !["user"] = @ \cup {tx.user},
                                   !["key"] = @ \cup {tx.key}]
               /\ tx.user \notin db["user"]
               /\ tx.key \notin db["key"]
          ELSE /\ db' = db
               /\ (tx'.pc = "idle" /\ last'.raised = NoError)
                     => last'.log = TransactionOrder \o <<"END">>
               /\ (tx'.pc = "idle" /\ last'.failed \in {"INSERT_KEY", "COMMIT"})
                     => /\ last'.raised # NoError
                        /\ UserRow(db', tx.user.id) = Null ]_vars

C1_Witness ==
    /\ last.op = "setUserWithKey"
    /\ last.failed = "INSERT_KEY"
    /\ last.raised # NoError
    /\ UserRow(db, last.arg[1].id) = Null

\* C2: setUser raises "duplicate key id" only when the key's id duplicates a key
\* row, never because the user id is a duplicate: a duplicate user id reaches
\* the caller as the database's uniqueness violation.
C2_DuplicateUserIdUntranslated ==
    /\ (last.op \in {"setUser", "setUserWithKey"}
          /\ last.raised = LuciaError("AUTH_DUPLICATE_KEY_ID"))
         => last.failed = "INSERT_KEY"
    /\ (last.op = "setUserWithKey" /\ last.failed = "INSERT_USER"
          /\ last.err = UniqueViolation)
         => last.raised = UniqueViolation
    /\ (last.op = "setUser" /\ last.err = UniqueViolation)
         => last.raised = UniqueViolation

\* C3: setSession and setKey raise "invalid user id" exactly on a foreign-key
\* violation (23503) on user_id, setKey raises "duplicate key id" exactly on a
\* uniqueness violation (23505) on id, any other failure of the insert reaches
\* the caller as the error the SQL facility raised, a failed call adds no row
\* and a successful one adds exactly the row it was given.
C3_InsertErrorTranslation ==
    [][ (Completed({"setSession", "setKey"}) /\ last'.nsql = 1) =>
          LET c == last'
              table == IF c.op = "setSession" THEN "session" ELSE "key"
              fk == c.err.code = "23503" /\ Includes(c.err.detail, <<"Key", "(user_id)">>)
              dup == c.err.code = "23505" /\ Includes(c.err.detail, <<"Key", "(id)">>)
          IN  /\ (c.raised = LuciaError("AUTH_INVALID_USER_ID")) <=> fk
              /\ (c.raised = LuciaError("AUTH_DUPLICATE_KEY_ID")) <=> (c.op = "setKey" /\ dup)
              /\ c.raised.kind # "LuciaError" => c.raised = c.err
              /\ fk => ~ \E u \in db["user"] : u.id = c.arg.user_id
              /\ dup => \E r \in db[table] : r.id = c.arg.id
              /\ IF c.raised # NoError
                 THEN db' = db
                 ELSE /\ c.arg \notin db[table]
                      /\ db' = [db EXCEPT ![table] = @ \cup {c.arg}] ]_vars

C3_Witness ==
    /\ last.op = "setKey"
    /\ last.err = UniqueViolation
    /\ last.raised = LuciaError("AUTH_DUPLICATE_KEY_ID")

SessionOperations ==
    {"getSession", "getSessionsByUserId", "setSession", "deleteSession",
     "deleteSessionsByUserId", "updateSession", "getSessionAndUser"}

\* C4: with no session table every session operation throws "Session table not
\* defined" with no SQL statement issued and the database unchanged, and no
\* user or key operation throws that error.
C4_SessionTableNotDefined ==
    [][ (ESCAPED_SESSION_TABLE_NAME = "null" /\ calls' = calls + 1) =>
          /\ gsu' = NoLookup
          /\ IF last'.op \in SessionOperations
             THEN /\ last'.raised = SessionTableError
                  /\ last'.nsql = 0
                  /\ db' = db
             ELSE /\ last'.raised # SessionTableError
                  /\ last'.op # "none" => last'.nsql = 1 ]_vars

C4_Witness ==
    /\ ESCAPED_SESSION_TABLE_NAME = "null"
    /\ last.op = "deleteSessionsByUserId"
    /\ last.raised = SessionTableError
    /\ db["key"] # {}

\* C5: getSessionAndUser returns [null, null], or a session and a user whose id
\* is the session's user_id, whatever other calls run between its two lookups.
C5_SessionAndUserMatch ==
    (last.op = "getSessionAndUser" /\ last.raised = NoError)
        => \/ last.res = <<Null, Null>>
           \/ last.res[2].id = last.res[1].user_id

\* C6: once setUser(user, key) has returned or thrown, the connection it made
\* is not open: it was never established (connect failed) or it is closed.
C6_ConnectionReleased ==
    /\ last.op = "setUserWithKey" =>
          IF last.failed = "connect" THEN last.conn = "none" ELSE last.conn = "closed"
    /\ tx.pc = "idle" => tx.conn = "none"

C6_Witness ==
    /\ last.op = "setUserWithKey"
    /\ last.failed = "INSERT_KEY"
    /\ last.conn = "closed"

\* C7: every stored session and key has the user_id of a stored user, and no
\* table holds two rows with one id.
C7_ReferentialIntegrity ==
    /\ \A t \in {"session", "key"} : \A r \in db[t] :
          \E u \in db["user"] : u.id = r.user_id
    /\ \A t \in Tables : Cardinality({r.id : r \in db[t]}) = Cardinality(db[t])

C7_Witness ==
    /\ last.op = "deleteUser"
    /\ last.raised = StillReferenced
    /\ \E k \in db["key"] : k.user_id = last.arg
    /\ tx.pc = "COMMIT"

\* C8: an update changes no table but its own and no row but the one with the
\* given id; when it succeeds that row has the supplied values in the supplied
\* fields and its previous values in the others; when it fails, or no row has
\* the id, nothing changes.
C8_UpdateFrame ==
    [][ Completed({"updateUser", "updateSession", "updateKey"}) =>
          LET c == last'
              table == CASE c.op = "updateUser" -> "user"
                         [] c.op = "updateSession" -> "session"
                         [] c.op = "updateKey" -> "key"
              id == c.arg[1]
              partial == c.arg[2]
          IN  /\ \A t \in Tables \ {table} : db'[t] = db[t]
              /\ {r \in db'[table] : r.id # id} = {r \in db[table] : r.id # id}
              /\ {r.id : r \in db'[table]} = {r.id : r \in db[table]}
              /\ IF c.raised # NoError THEN db' = db
                 ELSE \A r \in db[table] : \A q \in db'[table] :
                        (r.id = id /\ q.id = id) =>
                            \A f \in DOMAIN r :
                                q[f] = IF f \in DOMAIN partial THEN partial[f] ELSE r[f] ]_vars

C8_Witness ==
    /\ last.op = "updateKey"
    /\ last.raised = NoError
    /\ last.arg[2] = [hashed_password |-> "p2"]
    /\ \E k \in db["key"] :
          k.id = last.arg[1] /\ k.hashed_password = "p2" /\ k.user_id = "u2"
    /\ \E k \in db["key"] : k.id # last.arg[1]

\* C9: after a successful setUser(U), getUser(U.id) finds a row equal to U;
\* getUser returns the row with the id, or null when there is none; deleteUser
\* of an id with no row succeeds and changes nothing.
C9_UserRoundTrip ==
    [][ /\ (Completed({"setUser"}) /\ last'.raised = NoError)
            => UserRow(db', last'.arg.id) = last'.arg
        /\ (tx.pc = "COMMIT" /\ tx'.pc = "end" /\ tx'.err = NoError)
            => UserRow(db', tx.user.id) = tx.user
        /\ Completed({"getUser"})
            => /\ db' = db
               /\ last'.raised = NoError
               /\ IF \E u \in db["user"] : u.id = last'.arg
                  THEN last'.res \in db["user"] /\ last'.res.id = last'.arg
                  ELSE last'.res = Null
        /\ (Completed({"deleteUser"}) /\ ~ \E u \in db["user"] : u.id = last'.arg)
            => /\ last'.raised = NoError
               /\ db' = db ]_vars

C9_Witness ==
    /\ last.op = "setUser"
    /\ last.raised = NoError
    /\ last.arg.username = "bob"
    /\ UserRow(db, last.arg.id) = last.arg

====
